---- MODULE Spec2Model ----
(***************************************************************************)
(* Windsurf Workflow Launcher (src/src/extension.ts): the registry         *)
(* WorkflowTreeProvider, its scans (refresh / loadWorkflows /              *)
(* collectWorkflows / parseWorkflow), its file-system watchers and its     *)
(* disposal, run on the single-threaded event loop of the extension host.  *)
(* One step of the model is one event-loop task: a command, a watcher      *)
(* callback or the completion of one file-system call together with the    *)
(* synchronous code that follows it up to the next await on I/O.           *)
(***************************************************************************)
EXTENDS Integers, Sequences, FiniteSets, TLC

(* ------------------------------ bounds --------------------------------- *)
\* refresh() calls that may be in flight at the same time
MaxScans == 2
\* changes the environment makes to the file system in one behaviour
MaxFsChanges == 1
\* changes of the set of workspace folders in one behaviour
MaxRootChanges == 1
\* change notifications a watcher holds undelivered (the host batches them)
MaxPending == 1

Scans == 1..MaxScans

(* --------------------------- the file system --------------------------- *)
\* workspace folders: RN is the .windsurf directory of RA, opened as a
\* folder of its own
RA == "/a"
RN == "/a/.windsurf"
Roots == {RA, RN}

\* directories
WA == "/a/.windsurf"
WN == "/a/.windsurf/.windsurf"
\* the .windsurf directories that the environment creates or finds
WindsurfDirs == {WA, WN}

\* files
F1 == "/a/.windsurf/build.yaml"
F2 == "/a/.windsurf/.windsurf/Deploy.JSON"
FTxt == "/a/.windsurf/notes.txt"
Files == {F1, F2}

Absent == [kind |-> "absent"]

\* a field of a decoded structure: a typed value
Undefined == [type |-> "undefined", val |-> ""]
Str(s) == [type |-> "string", val |-> s]
Num(s) == [type |-> "number", val |-> s]

\* raw file contents, by what the decoders make of them
MapOf(n, d, c) == [kind |-> "map", name |-> n, description |-> d, command |-> c]
CBuild == MapOf(Str("Build"), Str("Compile"), Str("make"))
CPlain == MapOf(Undefined, Undefined, Undefined)
CInvalid == [kind |-> "invalid"]
CEmpty == [kind |-> "empty"]
CNull == [kind |-> "null"]
CScalar == [kind |-> "scalar"]
CList == [kind |-> "list"]
Contents == {CBuild, CInvalid}

\* path.join(folder.uri.fsPath, '.windsurf')
WindsurfOf(root) == IF root = RA THEN WA ELSE WN

\* path.dirname
DirName(p) ==
  CASE p = F1 -> WA
    [] p = FTxt -> WA
    [] p = F2 -> WN
    [] p = WN -> WA
    [] p = WA -> RA
    [] OTHER -> "/"

\* path.basename
BaseName(p) ==
  CASE p = F1 -> "build.yaml"
    [] p = F2 -> "Deploy.JSON"
    [] p = FTxt -> "notes.txt"
    [] OTHER -> ".windsurf"

\* path.extname
ExtName(p) ==
  CASE p = F1 -> ".yaml"
    [] p = F2 -> ".JSON"
    [] p = FTxt -> ".txt"
    [] OTHER -> ""

\* String.prototype.toLowerCase on the extensions in use
ToLowerCase(s) ==
  CASE s = ".JSON" -> ".json"
    [] OTHER -> s

\* /(\.workflow|\.ya?ml|\.json)$/i.test(fileName)
isWorkflowFile(p) ==
  ToLowerCase(ExtName(p)) \in {".workflow", ".yaml", ".yml", ".json"}

\* is path p inside directory d (at any depth)
Under(p, d) ==
  \/ DirName(p) = d
  \/ DirName(DirName(p)) = d

\* fs.readdir(dir, {withFileTypes: true}) on file system (ds, fl): the
\* entries in the order the directory returns them
Entry(p, isDir) == [path |-> p, isDirectory |-> isDir]
Readdir(dir, ds, fl) ==
  CASE dir = WA ->
         (IF fl[F1] # Absent THEN <<Entry(F1, FALSE)>> ELSE <<>>)
         \o (IF WN \in ds THEN <<Entry(WN, TRUE)>> ELSE <<>>)
         \o <<Entry(FTxt, FALSE)>>
    [] dir = WN -> IF fl[F2] # Absent THEN <<Entry(F2, FALSE)>> ELSE <<>>
    [] OTHER -> <<>>

(* ------------------------------ parsing -------------------------------- *)
\* JSON.parse(raw) / yaml.load(raw) ?? {} : [threw, data]
Decode(ext, raw) ==
  IF ext = ".json"
  THEN CASE raw.kind = "map" -> [threw |-> FALSE, data |-> raw]
         [] raw.kind \in {"null", "scalar", "list"} -> [threw |-> FALSE, data |-> raw]
         [] OTHER -> [threw |-> TRUE, data |-> CPlain]
  ELSE CASE raw.kind = "map" -> [threw |-> FALSE, data |-> raw]
         [] raw.kind \in {"empty", "null"} -> [threw |-> FALSE, data |-> CPlain]
         [] raw.kind \in {"scalar", "list"} -> [threw |-> FALSE, data |-> raw]
         [] OTHER -> [threw |-> TRUE, data |-> CPlain]

\* data?.<field> : undefined on null, on a scalar and on a list
Field(data, f) ==
  IF data.kind = "map"
  THEN CASE f = "name" -> data.name
         [] f = "description" -> data.description
         [] OTHER -> data.command
  ELSE Undefined

\* String.prototype.trim on the names in use
Trim(s) ==
  CASE s = "  Build " -> "Build"
    [] s = "   " -> ""
    [] OTHER -> s

\* a label that tests the name before trimming it
LabelUntrimmedTest(name, filePath) ==
  IF name.type = "string" /\ name.val # "" THEN Trim(name.val) ELSE BaseName(filePath)

\* typeof data?.name === 'string' && data.name.trim().length > 0
\*   ? data.name.trim() : path.basename(filePath)
LabelOf(name, filePath) ==
  IF name.type = "string" /\ Trim(name.val) # "" THEN Trim(name.val) ELSE BaseName(filePath)

\* the record parseWorkflow returns for a file it could read, and whether
\* it showed the warning: lines 180-197
ParseResult(filePath, raw) ==
  LET d == Decode(ToLowerCase(ExtName(filePath)), raw)
      name == Field(d.data, "name")
      description == Field(d.data, "description")
      command == Field(d.data, "command")
  IN [warned |-> d.threw,
      record |->
        [label |-> LabelOf(name, filePath),
         description |-> IF description.type = "string" THEN description ELSE Undefined,
         filePath |-> filePath,
         command |-> IF command.type = "string" THEN command ELSE Undefined]]

(* ------------------------------ sorting -------------------------------- *)
\* collation key of a label under the locale-aware comparison: letters
\* compare without case first, a shorter string precedes its extensions
Collate(label) ==
  CASE label = "Build" -> 1
    [] label = "build.yaml" -> 2
    [] label = "Deploy.JSON" -> 3
    [] OTHER -> 0

\* key of a label under comparison by UTF-16 code unit ("B" < "D" < "b")
CodeUnitKey(label) ==
  CASE label = "Build" -> 1
    [] label = "Deploy.JSON" -> 2
    [] label = "build.yaml" -> 3
    [] OTHER -> 0

\* a comparator that orders by code unit instead of by locale
CodeUnitCompare(a, b) == CodeUnitKey(a.label) - CodeUnitKey(b.label)

\* (a, b) => a.label.localeCompare(b.label)
LocaleCompare(a, b) == Collate(a.label) - Collate(b.label)

\* the stable insertion of x into the sorted sequence s
InsertSorted(s, x) ==
  LET k == Cardinality({i \in 1..Len(s) : LocaleCompare(s[i], x) <= 0})
  IN SubSeq(s, 1, k) \o <<x>> \o SubSeq(s, k + 1, Len(s))

\* Array.prototype.sort with LocaleCompare (stable)
RECURSIVE SortByLabel(_)
SortByLabel(s) ==
  IF s = <<>> THEN <<>>
  ELSE InsertSorted(SortByLabel(SubSeq(s, 1, Len(s) - 1)), s[Len(s)])

(* --------------------------- the scan, as data -------------------------- *)
NoWarnings == [f \in Files |-> 0]
NoSubscriptions == [r \in Roots |-> 0]

\* a refresh() call that is not running
IdleScan ==
  [pc |-> "idle", folders |-> <<>>, idx |-> 0, target |-> "", stack |-> <<>>,
   results |-> <<>>, local |-> <<>>, warned |-> NoWarnings,
   calm |-> FALSE]

\* a refresh() call whose promise was rejected
RejectedScan == [IdleScan EXCEPT !.pc = "rejected"]

Settled(sc) == sc.pc \in {"idle", "rejected"}

\* vscode.workspace.createFileSystemWatcher(new RelativePattern(folder, ...))
Watcher(root) == [root |-> root, live |-> TRUE, pending |-> 0]

\* w.dispose()
DisposeWatcher(w) == [w EXCEPT !.live = FALSE, !.pending = 0]

\* this.watchers.forEach((w) => w.dispose()) : the list afterwards
DisposeAll(ws) ==
  IF ws = <<>> THEN <<>> ELSE [i \in 1..Len(ws) |-> DisposeWatcher(ws[i])]

\* the subscriptions still active when the list is emptied without
\* disposing what it holds
ActiveAfterDroppingAll(ws, act) == act

\* the subscriptions of the host that are still active after DisposeAll
ActiveAfterDisposeAll(ws, act) ==
  [r \in Roots |-> act[r] - Cardinality({i \in 1..Len(ws) : ws[i].live /\ ws[i].root = r})]

\* the loop of collectWorkflows from the top of the call stack up to its
\* next await on I/O: the call stack is a sequence of frames, each the
\* entries its loop has still to visit, the innermost call first
RECURSIVE Advance(_)
Advance(stack) ==
  IF stack = <<>>
  THEN [pc |-> "return", target |-> "", stack |-> <<>>]
  ELSE IF Head(stack) = <<>>
  THEN Advance(Tail(stack))
  ELSE LET e == Head(Head(stack))
           rest == <<Tail(Head(stack))>> \o Tail(stack)
       IN IF e.isDirectory
          THEN [pc |-> "readdir", target |-> e.path, stack |-> rest]
          ELSE IF ~isWorkflowFile(e.path)
          THEN Advance(rest)
          ELSE [pc |-> "readFile", target |-> e.path, stack |-> rest]

Outcome(sc, ws, act, done) == [sc |-> sc, watchers |-> ws, active |-> act, done |-> done]

\* the head of the loop over the folders: the next pathExists, or the end of
\* loadWorkflows
Proceed(sc, ws, act) ==
  IF sc.idx <= Len(sc.folders)
  THEN Outcome([sc EXCEPT !.pc = "access", !.target = WindsurfOf(sc.folders[sc.idx])],
               ws, act, FALSE)
  ELSE Outcome(sc, ws, act, TRUE)

\* a loop over the folders that ends at the first folder without a
\* .windsurf directory
StopAtFolder(sc, ws, act) == Outcome([sc EXCEPT !.idx = Len(sc.folders) + 1], ws, act, TRUE)

\* if (!(await this.pathExists(windsorDir))) { continue; }
SkipFolder(sc, ws, act) == Proceed([sc EXCEPT !.idx = @ + 1], ws, act)

\* collectWorkflows resumes: up to its next await or, when the outermost
\* call returns, on to the end of the folder's iteration (the records are
\* pushed, the watcher is created and pushed) and to the next folder
Collect(sc, ws, act) ==
  LET adv == Advance(sc.stack)
  IN IF adv.pc # "return"
     THEN Outcome([sc EXCEPT !.pc = adv.pc, !.target = adv.target, !.stack = adv.stack],
                  ws, act, FALSE)
     ELSE LET root == sc.folders[sc.idx]
          IN Proceed([sc EXCEPT !.local = @ \o sc.results, !.results = <<>>,
                                !.stack = <<>>, !.idx = @ + 1],
                     Append(ws, Watcher(root)),
                     [act EXCEPT ![root] = @ + 1])

\* a scan that keeps the records of the scan before it
StartLocalKeep(cur) == cur

\* const workflows: WorkflowDefinition[] = []
StartLocal(cur) == <<>>

\* refresh() -> loadWorkflows() up to its first await
Begin(fo, cur, ws, act, isAlone) ==
  Proceed([IdleScan EXCEPT !.folders = fo, !.idx = 1, !.local = StartLocal(cur),
                           !.calm = isAlone],
          <<>>, ActiveAfterDisposeAll(ws, act))

\* a scan that publishes its records folder by folder
VisibleShared(cur, sc, done) == IF done THEN SortByLabel(sc.local) ELSE sc.local

\* this.workflows after a task of the scan: assigned once, at the end
Visible(cur, sc, done) == IF done THEN SortByLabel(sc.local) ELSE cur

\* await this.loadWorkflows(); this._onDidChangeTreeData.fire() : the event
\* is fired in the task in which loadWorkflows resolves, and delivered
\* unless dispose() has disposed the emitter
Fire(done, gone) == done /\ ~gone

\* the roots that have an active subscription
CoveredRoots(act) == {r \in Roots : act[r] > 0}

(* ------------------------------ launching ------------------------------ *)
\* a text built by a template literal: its pieces in order (a plain string
\* is a text of one piece)
Text(pieces) == pieces

\* a command that falls back on the default for every falsy value
\* (workflow.command || ...)
CommandTextOr(wf) ==
  IF wf.command.type = "string" /\ wf.command.val # ""
  THEN Text(<<wf.command.val>>)
  ELSE Text(<<"windsurf run \"", wf.filePath, "\"">>)

\* workflow.command ?? `windsurf run "${workflow.filePath}"`
CommandText(wf) ==
  IF wf.command # Undefined
  THEN Text(<<wf.command.val>>)
  ELSE Text(<<"windsurf run \"", wf.filePath, "\"">>)

\* executeWorkflow(workflow): the terminal it creates and the text it sends
ExecuteWorkflow(wf) ==
  [name |-> Text(<<"Windsurf: ", wf.label>>),
   cwd |-> DirName(wf.filePath),
   text |-> CommandText(wf)]

\* no quick pick is open
NoPicker == [open |-> FALSE, items |-> <<>>]

\* a runWorkflow that offers the quick pick whatever the list holds
RunWithoutItemUnchecked(list) ==
  [infos |-> 0, picker |-> [open |-> TRUE, items |-> list]]

\* runWorkflow() without a record, up to its return or its await of the
\* quick pick
RunWithoutItem(list) ==
  IF Len(list) = 0
  THEN [infos |-> 1, picker |-> NoPicker]
  ELSE [infos |-> 0, picker |-> [open |-> TRUE, items |-> list]]

\* runWorkflow resumes with the user's answer k (0: dismissed)
Picked(items, k) == IF k = 0 THEN <<>> ELSE <<ExecuteWorkflow(items[k])>>


(* ------------------------------- state --------------------------------- *)
VARIABLES
  folders,    \* vscode.workspace.workspaceFolders
  dirs,       \* the .windsurf directories that exist
  files,      \* the content of each file, or Absent
  workflows,  \* this.workflows
  watchers,   \* this.watchers
  active,     \* per root, the subscriptions of the host not yet disposed
  disposed,   \* dispose() has run
  scan,       \* the refresh() calls in flight
  baseline,   \* history: what the last scan left, if nothing disturbed it
              \* (no change of the environment, no other call, no dispose
              \* since it began) and nothing changed since; {} otherwise
  nFs,        \* file-system changes so far
  nRoot,      \* workspace-folder changes so far
  emitted,    \* the task just run called _onDidChangeTreeData.fire() on an
              \* emitter that still delivers
  picker,     \* the quick pick that runWorkflow awaits, if any
  how,        \* the path the last runWorkflow task took
  terminals,  \* the terminals the last runWorkflow task created, in order
  infos       \* the information messages the last runWorkflow task showed

vars == <<folders, dirs, files, workflows, watchers, active, disposed, scan,
          baseline, nFs, nRoot, emitted, picker, how, terminals, infos>>

env == <<folders, dirs, files, nFs, nRoot>>

launch == <<picker, how, terminals, infos>>

InFlight == {s \in Scans : ~Settled(scan[s])}

\* the slot a new refresh() call takes
FreeSlot == CHOOSE s \in Scans : Settled(scan[s]) /\ \A t \in Scans : Settled(scan[t]) => s <= t

\* what the scan that ends leaves for the history: the roots its
\* subscriptions cover, the warnings it showed per file, and whether the
\* scan before it was undisturbed too
Left(r) ==
  IF r.sc.calm
  THEN {[cover |-> CoveredRoots(r.active), warnings |-> r.sc.warned,
         repeated |-> baseline # {}]}
  ELSE {}

\* the state after a task of scan s with outcome r
Settle(s, r, others) ==
  /\ watchers' = r.watchers
  /\ active' = r.active
  /\ workflows' = Visible(workflows, r.sc, r.done)
  /\ scan' = [others EXCEPT ![s] = IF r.done THEN IdleScan ELSE r.sc]
  /\ baseline' = IF r.done THEN Left(r) ELSE baseline
  /\ emitted' = Fire(r.done, disposed)

\* the other calls in flight, once a further call has begun
Overlapped == [t \in Scans |-> [scan[t] EXCEPT !.calm = FALSE]]

\* refresh(): loadWorkflows runs up to its first await (or, without
\* folders, to its end)
StartScan(ws) ==
  LET s == FreeSlot
  IN Settle(s, Begin(folders, workflows, ws, active, InFlight = {}), Overlapped)

\* the command windsurfWorkflowLauncher.refresh
Refresh ==
  /\ ~disposed
  /\ \E s \in Scans : Settled(scan[s])
  /\ StartScan(watchers)
  /\ UNCHANGED <<disposed, env, launch>>

\* a watcher's onDidChange / onDidCreate / onDidDelete callback
WatcherEvent ==
  /\ \E s \in Scans : Settled(scan[s])
  /\ \E i \in 1..Len(watchers) :
       /\ watchers[i].live
       /\ watchers[i].pending > 0
       /\ StartScan([watchers EXCEPT ![i].pending = @ - 1])
  /\ UNCHANGED <<disposed, env, launch>>

\* pathExists(windsorDir) resolves
AccessDone(s) ==
  /\ scan[s].pc = "access"
  /\ LET sc == scan[s]
     IN IF sc.target \in dirs
        THEN Settle(s, Outcome([sc EXCEPT !.pc = "readdir"], watchers, active, FALSE), scan)
        ELSE Settle(s, SkipFolder(sc, watchers, active), scan)
  /\ UNCHANGED <<disposed, env, launch>>

\* fs.readdir(dir) resolves
ReaddirDone(s) ==
  /\ scan[s].pc = "readdir"
  /\ LET sc == scan[s]
         entries == Readdir(sc.target, dirs, files)
     IN Settle(s, Collect([sc EXCEPT !.stack = <<entries>> \o @], watchers, active), scan)
  /\ UNCHANGED <<disposed, env, launch>>

\* fs.readFile(filePath) resolves: the rest of parseWorkflow
ReadFileDone(s) ==
  /\ scan[s].pc = "readFile"
  /\ files[scan[s].target] # Absent
  /\ LET sc == scan[s]
         p == ParseResult(sc.target, files[sc.target])
     IN Settle(s, Collect([sc EXCEPT !.results = Append(@, p.record),
                                     !.warned[sc.target] = @ + (IF p.warned THEN 1 ELSE 0)],
                          watchers, active), scan)
  /\ UNCHANGED <<disposed, env, launch>>

\* fs.readFile(filePath) rejects (the file is gone): nothing catches it, and
\* the promises of parseWorkflow, collectWorkflows, loadWorkflows and
\* refresh reject in turn
ReadFileFailed(s) ==
  /\ scan[s].pc = "readFile"
  /\ files[scan[s].target] = Absent
  /\ scan' = [scan EXCEPT ![s] = RejectedScan]
  /\ baseline' = {}
  /\ emitted' = FALSE
  /\ UNCHANGED <<workflows, watchers, active, disposed, env, launch>>

\* dispose()
Dispose ==
  /\ ~disposed
  /\ disposed' = TRUE
  /\ watchers' = DisposeAll(watchers)
  /\ active' = ActiveAfterDisposeAll(watchers, active)
  /\ scan' = Overlapped
  /\ baseline' = {}
  /\ emitted' = FALSE
  /\ UNCHANGED <<workflows, env, launch>>

\* the command windsurfWorkflowLauncher.runWorkflow with the tree item of
\* record i of the list
RunItem(i) ==
  /\ ~disposed
  /\ i \in 1..Len(workflows)
  /\ how' = "item"
  /\ terminals' = <<ExecuteWorkflow(workflows[i])>>
  /\ infos' = 0
  /\ emitted' = FALSE
  /\ UNCHANGED <<workflows, watchers, active, disposed, scan, baseline, env, picker>>

\* the command without a record (from the palette, or with the tree item
\* that stands for an empty list)
RunPalette ==
  /\ ~disposed
  /\ ~picker.open
  /\ LET r == RunWithoutItem(workflows)
     IN /\ picker' = r.picker
        /\ infos' = r.infos
  /\ how' = "palette"
  /\ terminals' = <<>>
  /\ emitted' = FALSE
  /\ UNCHANGED <<workflows, watchers, active, disposed, scan, baseline, env>>

\* showQuickPick resolves with item k of those offered
Pick(k) ==
  /\ picker.open
  /\ k \in 1..Len(picker.items)
  /\ picker' = NoPicker
  /\ how' = "picked"
  /\ terminals' = Picked(picker.items, k)
  /\ infos' = 0
  /\ emitted' = FALSE
  /\ UNCHANGED <<workflows, watchers, active, disposed, scan, baseline, env>>

\* showQuickPick resolves with undefined: the user dismissed it
CancelPick ==
  /\ picker.open
  /\ picker' = NoPicker
  /\ how' = "dismissed"
  /\ terminals' = Picked(picker.items, 0)
  /\ infos' = 0
  /\ emitted' = FALSE
  /\ UNCHANGED <<workflows, watchers, active, disposed, scan, baseline, env>>

(* --------------------------- the environment --------------------------- *)
\* does the pattern of the watcher of a root,
\* RelativePattern(folder, '.windsurf/**/*.{json,yaml,yml,workflow}'), match
\* file f (the host compares the extension without regard to case)
GlobMatches(root, f) ==
  /\ Under(f, WindsurfOf(root))
  /\ ToLowerCase(ExtName(f)) \in {".json", ".yaml", ".yml", ".workflow"}

\* the watchers after a change of file f: each active one whose pattern
\* matches holds one more notification
Notify(ws, f) ==
  IF ws = <<>> THEN <<>>
  ELSE [i \in 1..Len(ws) |->
          IF ws[i].live /\ GlobMatches(ws[i].root, f) /\ ws[i].pending < MaxPending
          THEN [ws[i] EXCEPT !.pending = @ + 1]
          ELSE ws[i]]

\* every call in flight has seen a change of the environment
Disturbed == Overlapped

\* is f a workflow file under the .windsurf directory of a workspace folder
Watched(f) ==
  isWorkflowFile(f) /\ \E i \in 1..Len(folders) : Under(f, WindsurfOf(folders[i]))

\* the environment creates, modifies (c is the new content) or deletes
\* (c = Absent) file f
ChangeFile(f, c) ==
  /\ nFs < MaxFsChanges
  /\ DirName(f) \in dirs
  /\ files[f] # c
  /\ files' = [files EXCEPT ![f] = c]
  /\ nFs' = nFs + 1
  /\ watchers' = Notify(watchers, f)
  /\ scan' = Disturbed
  /\ baseline' = {}
  /\ emitted' = FALSE
  /\ UNCHANGED <<folders, dirs, workflows, active, disposed, nRoot, launch>>

\* the environment creates a .windsurf directory (with the directories
\* above it)
Mkdir(d) ==
  /\ nFs < MaxFsChanges
  /\ d \notin dirs
  /\ d = WN => WA \in dirs
  /\ dirs' = dirs \cup {d}
  /\ nFs' = nFs + 1
  /\ scan' = Disturbed
  /\ baseline' = {}
  /\ emitted' = FALSE
  /\ UNCHANGED <<folders, files, workflows, watchers, active, disposed, nRoot, launch>>

\* the user adds a folder to the workspace
AddRoot(r) ==
  /\ nRoot < MaxRootChanges
  /\ \A i \in 1..Len(folders) : folders[i] # r
  /\ folders' = Append(folders, r)
  /\ nRoot' = nRoot + 1
  /\ scan' = Disturbed
  /\ baseline' = {}
  /\ emitted' = FALSE
  /\ UNCHANGED <<dirs, files, workflows, watchers, active, disposed, nFs, launch>>

\* the user removes a folder from the workspace
RemoveRoot(i) ==
  /\ nRoot < MaxRootChanges
  /\ i \in 1..Len(folders)
  /\ folders' = SubSeq(folders, 1, i - 1) \o SubSeq(folders, i + 1, Len(folders))
  /\ nRoot' = nRoot + 1
  /\ scan' = Disturbed
  /\ baseline' = {}
  /\ emitted' = FALSE
  /\ UNCHANGED <<dirs, files, workflows, watchers, active, disposed, nFs, launch>>

(* -------------------------- the specification -------------------------- *)
\* the workspaces and file systems the extension is activated in
InitFolders == {<<>>, <<RA>>, <<RN>>, <<RA, RN>>, <<RN, RA>>}

\* the state when activate() returns: the provider is constructed and its
\* first refresh() has run up to its first await
InitWith(contents) ==
  /\ folders \in InitFolders
  /\ dirs \in {{}, {WA}, {WA, WN}}
  /\ files \in [Files -> contents \cup {Absent}]
  /\ \A f \in Files : files[f] # Absent => DirName(f) \in dirs
  /\ disposed = FALSE
  /\ nFs = 0
  /\ nRoot = 0
  /\ LET r == Begin(folders, <<>>, <<>>, NoSubscriptions, TRUE)
     IN /\ watchers = r.watchers
        /\ active = r.active
        /\ workflows = Visible(<<>>, r.sc, r.done)
        /\ scan = [t \in Scans |-> IF t = 1 /\ ~r.done THEN r.sc ELSE IdleScan]
        /\ baseline = IF r.done
                      THEN {[cover |-> {}, warnings |-> NoWarnings, repeated |-> FALSE]}
                      ELSE {}
        /\ emitted = Fire(r.done, FALSE)
  /\ picker = NoPicker
  /\ how = "none"
  /\ terminals = <<>>
  /\ infos = 0

Init == InitWith(Contents)

Next ==
  \/ Refresh
  \/ WatcherEvent
  \/ \E s \in Scans : AccessDone(s)
  \/ \E s \in Scans : ReaddirDone(s)
  \/ \E s \in Scans : ReadFileDone(s)
  \/ \E s \in Scans : ReadFileFailed(s)
  \/ Dispose
  \/ \E f \in Files, c \in Contents \cup {Absent} : ChangeFile(f, c)
  \/ \E d \in WindsurfDirs : Mkdir(d)
  \/ \E r \in Roots : AddRoot(r)
  \/ \E i \in 1..2 : RemoveRoot(i)

Spec == Init /\ [][Next]_vars

\* the registry alone, in an environment that does not change: the calls
\* in flight may overlap and dispose() may come at any time
ScanNext ==
  \/ Refresh
  \/ \E s \in Scans : AccessDone(s)
  \/ \E s \in Scans : ReaddirDone(s)
  \/ \E s \in Scans : ReadFileDone(s)
  \/ Dispose

ScanSpec == Init /\ [][ScanNext]_vars

\* definitions with an empty command beside those with one and without
CQuiet == MapOf(Str("Build"), Undefined, Str(""))
LaunchContents == {CBuild, CInvalid, CQuiet}

\* the refresh command, run while no call is in flight
RefreshWhenIdle == InFlight = {} /\ Refresh

\* the user launches workflows while the registry scans and, one call at a
\* time, re-scans
LaunchNext ==
  \/ RefreshWhenIdle
  \/ \E s \in Scans : AccessDone(s)
  \/ \E s \in Scans : ReaddirDone(s)
  \/ \E s \in Scans : ReadFileDone(s)
  \/ \E i \in 1..2 : RunItem(i)
  \/ RunPalette
  \/ \E k \in 1..2 : Pick(k)
  \/ CancelPick

LaunchSpec == InitWith(LaunchContents) /\ [][LaunchNext]_vars

\* the values a field of a definition may have: strings (plain, padded,
\* blank, empty), a value that is not a string, or none
NameValues == {Str("Build"), Str("  Build "), Str("   "), Str(""), Num("7"), Undefined}
TextValues == {Str("make"), Str(""), Num("7"), Undefined}

\* what a workflow file may hold
ParseContents ==
  {MapOf(n, d, c) : n \in NameValues, d \in TextValues, c \in TextValues}
    \cup {CInvalid, CEmpty, CNull, CScalar, CList}

\* folder /a with both directories, and any content in each file
ParseInit ==
  /\ InitWith(ParseContents)
  /\ folders = <<RA>>
  /\ dirs = {WA, WN}

\* the first scan alone: it parses every file it finds
ParseNext ==
  \/ \E s \in Scans : AccessDone(s)
  \/ \E s \in Scans : ReaddirDone(s)
  \/ \E s \in Scans : ReadFileDone(s)

ParseSpec == ParseInit /\ [][ParseNext]_vars


(* ------------------------------ the claims ----------------------------- *)
Range(s) == {s[i] : i \in 1..Len(s)}

\* how many records of the list have file f as their source
RecordsOf(f, list) == Cardinality({i \in 1..Len(list) : list[i].filePath = f})

\* no call in flight and no notification waiting for delivery
Quiescent ==
  /\ InFlight = {}
  /\ \A i \in 1..Len(watchers) : ~(watchers[i].live /\ watchers[i].pending > 0)

\* the record of a file that could not be decoded
Degraded(rec) ==
  /\ rec.label = BaseName(rec.filePath)
  /\ rec.description = Undefined
  /\ rec.command = Undefined

\* C1: after a scan that ran undisturbed, the list holds exactly one record
\* for every workflow file under the .windsurf directory of a workspace
\* folder (nested folders included), and no record of anything else.
OneRecordPerAcceptedFile ==
  baseline # {} =>
    /\ \A f \in Files : (files[f] # Absent /\ Watched(f)) => RecordsOf(f, workflows) = 1
    /\ \A i \in 1..Len(workflows) :
         /\ workflows[i].filePath \in Files
         /\ files[workflows[i].filePath] # Absent
         /\ Watched(workflows[i].filePath)

\* C2: no failure on a single file escapes the scan: no refresh() call ends
\* rejected because a file it listed could not be read.
NoFileFailureEscapes == \A s \in Scans : scan[s].pc # "rejected"

\* C3: after a scan that ran undisturbed, every workflow file that is
\* syntactically invalid has a record with its base name as label and no
\* description and no command, and the scan showed exactly one warning for
\* it; it showed none for a well-formed file.
InvalidFileWarnedOnce ==
  \A b \in baseline : \A f \in Files :
    (files[f] # Absent /\ Watched(f)) =>
      IF files[f].kind = "invalid"
      THEN /\ b.warnings[f] = 1
           /\ \E i \in 1..Len(workflows) : workflows[i].filePath = f
           /\ \A i \in 1..Len(workflows) :
                workflows[i].filePath = f => Degraded(workflows[i])
      ELSE b.warnings[f] = 0

\* C4: in every reachable state the record list is sorted ascending by
\* label under the locale-aware order.
SortedByLabel ==
  \A i, j \in 1..Len(workflows) :
    i < j => Collate(workflows[i].label) <= Collate(workflows[j].label)

\* the sort has acted: the list holds the record of F2 before that of F1,
\* with different labels, and the directory lists F1 first
SortedWitness ==
  /\ Len(workflows) = 2
  /\ workflows[1].filePath = F2
  /\ workflows[2].filePath = F1
  /\ Collate(workflows[1].label) < Collate(workflows[2].label)

\* C5: the record list changes only in the task in which a scan ends, and
\* then it holds everything that scan gathered (for a workspace without
\* folders: nothing); at no suspension point of a scan does the list hold a
\* part of what the scan has gathered so far.
AtomicReplace ==
  [][workflows' # workflows =>
       \/ \E s \in Scans :
            /\ ~Settled(scan[s])
            /\ scan'[s] = IdleScan
            /\ Range(scan[s].local \o scan[s].results) \subseteq Range(workflows')
            /\ Len(workflows') >= Len(scan[s].local) + Len(scan[s].results)
       \/ (folders = <<>> /\ workflows' = <<>>)]_vars

\* a scan is suspended between two folders with the records of the first,
\* and the list holds the whole, different, result of an earlier scan
PartialHidden ==
  \E s \in Scans :
    /\ scan[s].pc = "access"
    /\ scan[s].idx = 2
    /\ scan[s].local # <<>>
    /\ Len(workflows) > Len(scan[s].local)

\* C6: every create, modify or delete of a workflow file under the
\* .windsurf directory of a workspace folder, while the registry is not
\* disposed, triggers a re-scan that starts after the change: the change
\* leaves a notification with an active subscription (a scan begins only
\* from a command or from a notification).
EveryChangeNoticed ==
  [][\A f \in Files :
       (files'[f] # files[f] /\ ~disposed /\ Watched(f)) =>
         \E i \in 1..Len(watchers') :
           /\ watchers'[i].live
           /\ watchers'[i].pending > 0
           /\ Under(f, WindsurfOf(watchers'[i].root))]_vars

\* C7: after dispose(), once the scans that were in flight have ended, no
\* subscription the registry created is still active.
NoSubscriptionAfterDispose ==
  (disposed /\ InFlight = {}) => \A r \in Roots : active[r] = 0

\* C8: whenever no scan is in flight, each root has at most one active
\* subscription, and after an undisturbed scan each folder whose .windsurf
\* directory exists has exactly one.
OneSubscriptionPerRoot ==
  /\ InFlight = {} => \A r \in Roots : active[r] <= 1
  /\ (InFlight = {} /\ baseline # {}) =>
       \A i \in 1..Len(folders) : WindsurfOf(folders[i]) \in dirs => active[folders[i]] = 1

\* C9: after a change of the workspace folders the subscriptions are those
\* of the new folders without a refresh or a file event: in a quiescent
\* state of a behaviour without file-system changes, the roots with an
\* active subscription are the current folders whose .windsurf exists.
SubscriptionsFollowFolders ==
  (Quiescent /\ ~disposed /\ nFs = 0) =>
    CoveredRoots(active) = {r \in Range(folders) : WindsurfOf(r) \in dirs}

\* C10: a scan that ran undisturbed, right after another undisturbed scan
\* and with no change in between, leaves the same record list (same records,
\* same order) and subscriptions that cover the same roots.
RescanIdempotent ==
  [][(baseline # {} /\ baseline' # {}) =>
       /\ workflows' = workflows
       /\ \A b \in baseline, c \in baseline' : c.cover = b.cover]_vars

\* the second of two undisturbed scans has ended, on a list of two records
\* or more and with a subscription in place
RescanWitness ==
  \E b \in baseline :
    /\ b.repeated
    /\ b.cover # {}
    /\ Len(workflows) >= 2

\* the step launches record rec: by its tree item, or by the user's choice
\* in the quick pick
Launches(rec) ==
  \/ \E i \in 1..Len(workflows) : workflows[i] = rec /\ RunItem(i)
  \/ \E k \in 1..Len(picker.items) : picker.items[k] = rec /\ Pick(k)

\* the records the user can launch in this state
Launchable == Range(workflows) \cup Range(picker.items)

\* is directory d the one that holds file f
HoldsFile(d, f) ==
  \E i \in 1..Len(Readdir(d, {WA, WN}, [g \in Files |-> CBuild])) :
    Readdir(d, {WA, WN}, [g \in Files |-> CBuild])[i].path = f

\* C11: launching a record creates exactly one terminal: its text is the
\* record's command whenever the record has one (the empty string too) and
\* windsurf run "<filePath>" otherwise, its working directory is the
\* directory that holds the file, its name is made of the label; the record
\* list and the subscriptions are left as they were.
LaunchRunsRecord ==
  [][\A rec \in Launchable :
       Launches(rec) =>
         /\ Len(terminals') = 1
         /\ terminals'[1].text =
              (IF rec.command.type = "string"
               THEN <<rec.command.val>>
               ELSE <<"windsurf run \"", rec.filePath, "\"">>)
         /\ HoldsFile(terminals'[1].cwd, rec.filePath)
         /\ terminals'[1].name = <<"Windsurf: ", rec.label>>
         /\ workflows' = workflows
         /\ watchers' = watchers
         /\ active' = active]_vars

\* a record whose command is the empty string has been launched from its
\* tree item, and the terminal got the empty text
LaunchedEmptyCommand ==
  /\ how = "item"
  /\ Len(terminals) = 1
  /\ terminals[1].text = <<"">>
  /\ terminals[1].cwd = WN
  /\ \E i \in 1..Len(workflows) :
       workflows[i].command = Str("") /\ ExecuteWorkflow(workflows[i]) = terminals[1]

\* C12: runWorkflow without a record shows exactly one information message
\* and creates no terminal when the list is empty; otherwise it offers every
\* record of the list, in order, in the quick pick and shows nothing; when the
\* user dismisses the quick pick no terminal is created and no message shown;
\* when the user chooses, exactly one terminal is created, for the choice.
PaletteRunsChoice ==
  [][ /\ RunPalette =>
          IF workflows = <<>>
          THEN infos' = 1 /\ terminals' = <<>> /\ ~picker'.open
          ELSE infos' = 0 /\ terminals' = <<>> /\ picker'.open /\ picker'.items = workflows
      /\ CancelPick => (infos' = 0 /\ terminals' = <<>> /\ ~picker'.open)
      /\ \A k \in 1..Len(picker.items) :
           Pick(k) =>
             /\ infos' = 0
             /\ ~picker'.open
             /\ Len(terminals') = 1
             /\ terminals'[1].name = <<"Windsurf: ", picker.items[k].label>>
             /\ HoldsFile(terminals'[1].cwd, picker.items[k].filePath)]_vars

\* the user has chosen the second of two records offered, and its terminal
\* is the one created
PickedSecond ==
  /\ how = "picked"
  /\ Len(workflows) = 2
  /\ workflows[1].filePath # workflows[2].filePath
  /\ terminals = <<ExecuteWorkflow(workflows[2])>>
  /\ infos = 0

\* C13: after a scan that ran undisturbed to its normal end (a rejected
\* call leaves no such state), a folder whose .windsurf directory does not
\* exist has no record in the list, and every file under the .windsurf
\* directory of any other folder of the scan has its record, whether that
\* folder comes before or after the one without the directory.
MissingFolderSkipped ==
  baseline # {} =>
    \A i \in 1..Len(folders) :
      WindsurfOf(folders[i]) \notin dirs =>
        /\ \A k \in 1..Len(workflows) :
             ~Under(workflows[k].filePath, WindsurfOf(folders[i]))
        /\ \A j \in 1..Len(folders) : \A f \in Files :
             (/\ WindsurfOf(folders[j]) \in dirs
              /\ files[f] # Absent
              /\ Under(f, WindsurfOf(folders[j]))) => RecordsOf(f, workflows) >= 1

\* an undisturbed scan has ended whose first folder has no .windsurf
\* directory, and the list holds the record of the second folder's file
SkippedFirstFolder ==
  /\ baseline # {}
  /\ folders = <<RN, RA>>
  /\ WN \notin dirs
  /\ files[F1] # Absent
  /\ Len(workflows) = 1
  /\ workflows[1].filePath = F1

\* every record parseWorkflow has returned so far and that is still held
Produced ==
  Range(workflows)
    \cup UNION {Range(scan[s].local) \cup Range(scan[s].results) : s \in Scans}

\* the field of the decoded structure, for a file that holds a mapping
Given(raw, field) ==
  IF raw.kind # "map" THEN Undefined
  ELSE CASE field = "name" -> raw.name
         [] field = "description" -> raw.description
         [] OTHER -> raw.command

\* strings made of white space only
Blank == {"", "   "}

\* C14: every record has as label the name without the white space around
\* it when the name is a string with something else than white space, and
\* the file's name with its extension in every other case; its description
\* and command are the field when that is a string and absent otherwise;
\* no record has the empty label.
LabelFromNameOrFile ==
  \A rec \in Produced :
    LET raw == files[rec.filePath]
        name == Given(raw, "name")
    IN /\ rec.label =
            (IF name.type = "string" /\ name.val \notin Blank
             THEN (IF name.val = "  Build " THEN "Build" ELSE name.val)
             ELSE (IF rec.filePath = F1 THEN "build.yaml" ELSE "Deploy.JSON"))
       /\ rec.description =
            (IF Given(raw, "description").type = "string"
             THEN Given(raw, "description") ELSE Undefined)
       /\ rec.command =
            (IF Given(raw, "command").type = "string"
             THEN Given(raw, "command") ELSE Undefined)
       /\ rec.label # ""

\* the list holds the record of a padded name, trimmed, beside the record
\* of a blank name, labelled with the file's name, whose description is not
\* a string and was dropped
TrimmedAndBlank ==
  /\ files[F1].kind = "map"
  /\ files[F1].name = Str("  Build ")
  /\ files[F2].kind = "map"
  /\ files[F2].name = Str("   ")
  /\ files[F2].description = Num("7")
  /\ Len(workflows) = 2
  /\ \E i, j \in 1..2 :
       /\ workflows[i].filePath = F1
       /\ workflows[i].label = "Build"
       /\ workflows[j].filePath = F2
       /\ workflows[j].label = "Deploy.JSON"
       /\ workflows[j].description = Undefined

\* C15: after the scan, every file that is empty or whose top-level value
\* is null, a scalar or a list has a record with the file's name as label
\* and neither description nor command, and the scan showed no warning
\* for it, whatever its extension.
EmptyDefinitionNotReported ==
  \A b \in baseline : \A f \in Files :
    (files[f] # Absent /\ files[f].kind \in {"empty", "null", "scalar", "list"}) =>
      /\ \E i \in 1..Len(workflows) : workflows[i].filePath = f
      /\ \A i \in 1..Len(workflows) : workflows[i].filePath = f => Degraded(workflows[i])
      /\ b.warnings[f] = 0

\* the call in slot s ends in this step
Ends(s) == ~Settled(scan[s]) /\ Settled(scan'[s])

\* the list after the step is what the call in slot s gathered: its records
\* so far and, if the step read a file, that file's record
OwnResult(s) ==
  LET own == scan[s].local \o scan[s].results
  IN /\ Range(own) \subseteq Range(workflows')
     /\ \A f \in Files : RecordsOf(f, workflows') >= RecordsOf(f, own)
     /\ Len(workflows') <= Len(own) + 1
     /\ Len(workflows') = Len(own) + 1 =>
          /\ scan[s].pc = "readFile"
          /\ RecordsOf(scan[s].target, workflows') = RecordsOf(scan[s].target, own) + 1

\* C16: scans are not serialized. A refresh while another call is in
\* flight begins its own scan in the same step (one more call is in flight,
\* unless there is no folder to scan); every call that ends while another is
\* in flight ends by replacing the list with its own complete result, so
\* that the list is that of the call that ended last.
OverlappingScansComplete ==
  [][ /\ (Refresh /\ InFlight # {} /\ folders # <<>>) =>
          Cardinality(InFlight') = Cardinality(InFlight) + 1
      /\ \A s \in Scans :
           (Ends(s) /\ Cardinality(InFlight) >= 2) =>
             /\ scan'[s].pc = "idle"
             /\ OwnResult(s)]_vars

\* a scan of the file system as it is now reaches file f from root r
Reaches(r, f) ==
  /\ WindsurfOf(r) \in dirs
  /\ DirName(f) \in dirs
  /\ files[f] # Absent
  /\ isWorkflowFile(f)
  /\ Under(f, WindsurfOf(r))

\* the list is what a scan of the file system as it is now would leave:
\* per file, one record for each folder that reaches it, made from the
\* file's present content
UpToDate ==
  /\ \A f \in Files :
       RecordsOf(f, workflows) = Cardinality({i \in 1..Len(folders) : Reaches(folders[i], f)})
  /\ \A i \in 1..Len(workflows) :
       files[workflows[i].filePath] # Absent =>
         workflows[i] = ParseResult(workflows[i].filePath, files[workflows[i].filePath]).record

\* C17: once every scan that was triggered has ended normally and no
\* notification waits for delivery, the list is the result of scanning the
\* file system as it is (in a behaviour that leaves the workspace folders
\* as they were, before dispose).
Converged ==
  (/\ Quiescent
   /\ ~disposed
   /\ nRoot = 0
   /\ \A s \in Scans : scan[s].pc # "rejected") => UpToDate

\* the subscriptions of root r that the watcher list holds and that are
\* not disposed
Listed(r) == {i \in 1..Len(watchers) : watchers[i].live /\ watchers[i].root = r}

\* C18: in every reachable state, for each root, the subscriptions created
\* and not yet disposed are as many as the undisposed elements of the
\* watcher list for that root: every one of them is in the list.
LiveSubscriptionsListed ==
  \A r \in Roots : active[r] = Cardinality(Listed(r))

\* calls overlap and the list holds an undisposed subscription, pushed
\* since the latest of them emptied the list
PushedWhileOverlapping ==
  /\ Cardinality(InFlight) >= 2
  /\ \E r \in Roots : Listed(r) # {} /\ active[r] > 0

\* C19: every refresh fires the tree-changed event exactly once: in the
\* task in which its call ends, which is the task in which its scan
\* replaces the list (before dispose). No event is fired in any other task,
\* so none while the list holds an older result than the scan it reports,
\* and every replacement has its event in the same task.
RefreshFiresOnce ==
  [][ /\ \A s \in Scans :
           (Ends(s) /\ ~disposed) =>
             /\ scan'[s].pc = "idle"
             /\ OwnResult(s)
             /\ emitted'
      /\ (Refresh /\ folders = <<>>) => emitted'
      /\ emitted' =>
           \/ \E s \in Scans : Ends(s) /\ scan'[s].pc = "idle" /\ OwnResult(s)
           \/ (folders = <<>> /\ workflows' = <<>>) ]_vars

====
